---- MODULE Spec2Model ----
(***************************************************************************)
(* physfs-cpp: the buffered stream adapter (class fbuf) and the stream     *)
(* facade (base_fstream, ifstream, ofstream, fstream) of                   *)
(* src/include/physfs.hpp, over one PhysicsFS file.                        *)
(*                                                                         *)
(* One stream object exists at a time.  Every action is one call of the    *)
(* facade (a constructor, open, close, the destructor, get, put, flush,    *)
(* seekg/seekp/tellg/tellp, length) together with every fbuf and PHYSFS_*  *)
(* call it makes.  The iostate flags of the std streams are not modelled:  *)
(* the caller may clear() them at any time, so every call is offered in    *)
(* every state of a live stream.                                           *)
(*                                                                         *)
(* Pointers into fbuf::buffer are offsets from its start: the byte at      *)
(* offset p is buffer[p + 1].                                              *)
(***************************************************************************)
EXTENDS Integers, Sequences, FiniteSets, TLC

\* ------------------------------------------------------------------ bounds

\* fbuf::bufferSize (2048 in the program), scaled down
bufferSize == 2

\* the longest file the model lets the writes produce
MaxLen == 3

\* the bytes put: the i-th byte put on a handle is i.  The code stores and
\* copies bytes and never looks at one, so distinct bytes show every loss,
\* duplication and reordering
Bytes == 1..MaxLen

\* traits_type::eof()
EOF == -1

\* an element of fbuf::buffer that was never stored to
Uninit == 0

\* "a" can be opened in every mode once it exists (for READ) and is created
\* by WRITE and APPEND; "x" is missing and outside the write directory, so
\* every PHYSFS_open* of it returns NULL
Names == {"a", "x"}

Modes == {"READ", "WRITE", "APPEND"}

Kinds == {"ifstream", "ofstream", "fstream"}

\* what a build does after undefined behaviour: goes on, or the process dies
UBOutcomes == {"continue", "crash"}

VARIABLES
    fsExists,   \* PhysicsFS: the file "a" exists
    fsData,     \* PhysicsFS: the bytes of "a"
    h,          \* the PHYSFS_File obtained last: [state, mode, pos]
    obj,        \* "none" | "alive" | "crashed" (the process died)
    kind,       \* the class of the live stream object
    file,       \* base_fstream::file: "null" | "h"
    rdbuf,      \* std::ios::rdbuf(): "null" | "fbuf"
    sb,         \* the fbuf: [buffer, gptr, egptr, pptr, epptr]
    op,         \* the call made last
    ret,        \* what the call made last returned
    err,        \* the exception the call made last threw: <<>> or <<what, filename>>
    fault,      \* the undefined behaviour the call made last ran into: "" if none
    acct,       \* resources held: [handles, fbufs], the open handles and the live fbuf objects
    wlog,       \* the bytes accepted by put since the handle was opened
    wbase,      \* the bytes of the file right after the handle was opened
    pend,       \* the bytes pending in the write region when the handle was closed
    closer,     \* the call that closed the handle: "" while it is open
    rstart,     \* the consumer's read position after the last open or read seek (-1: not known)
    rlog,       \* the bytes get returned since then
    seeked,     \* the seeks since the handle was opened: "no": none, "start": one, to
                \* the start in the read direction, before any get and after every
                \* put, "other": any others
    lastS       \* the bytes a WRITE-mode stream wrote and flushed before its handle was closed
                \* without a seek, <<EOF>> if there is no such sequence

vars == <<fsExists, fsData, h, obj, kind, file, rdbuf, sb, op, ret, err, fault,
          acct, wlog, wbase, pend, closer, rstart, rlog, seeked, lastS>>

\* ------------------------------------------------------------ the program state

\* the state the code acts on, as one record; dead: the process died,
\* thrown: an exception is propagating
Cur ==
    [fsExists |-> fsExists, fsData |-> fsData, h |-> h, file |-> file,
     rdbuf |-> rdbuf, sb |-> sb, fault |-> "", acct |-> acct,
     ret |-> 0, err |-> <<>>, dead |-> FALSE, thrown |-> FALSE]

Min(a, b) == IF a < b THEN a ELSE b

Max(a, b) == IF a > b THEN a ELSE b

\* no PHYSFS_File
NoHandle == [state |-> "none", mode |-> "READ", pos |-> 0]

\* no fbuf object
NoBuf ==
    [buffer |-> [i \in 1..bufferSize |-> Uninit], gptr |-> 0, egptr |-> 0,
     pptr |-> 0, epptr |-> 0]

\* streambuf::pbase(): every setp of fbuf passes buffer as the start
pbase == 0

\* undefined behaviour f was run into: the process dies or goes on
UB(m, f, ub) ==
    [m EXCEPT !.fault = f, !.dead = (ub = "crash")]

\* ------------------------------------------------ PhysicsFS, as the code calls it

\* the bytes of data with bytes stored from offset pos on
Overwrite(data, pos, bytes) ==
    [i \in 1..Max(Len(data), pos + Len(bytes)) |->
        IF i > pos /\ i <= pos + Len(bytes) THEN bytes[i - pos] ELSE data[i]]

\* PHYSFS_openRead / PHYSFS_openWrite / PHYSFS_openAppend: m.file becomes the
\* new handle, or "null" when the library returns NULL
PHYSFS_open(m, filename, openMode) ==
    IF filename # "a" \/ (openMode = "READ" /\ ~m.fsExists)
    THEN [m EXCEPT !.file = "null"]
    ELSE LET data == IF openMode = "WRITE" \/ ~m.fsExists THEN <<>> ELSE m.fsData
         IN  [m EXCEPT !.file = "h",
                       !.fsExists = TRUE,
                       !.fsData = data,
                       !.h = [state |-> "open", mode |-> openMode,
                              pos |-> IF openMode = "APPEND" THEN Len(data) ELSE 0],
                       !.acct.handles = @ + 1]

\* PHYSFS_close(p): NULL is no handle and is refused; a handle closed before
\* is freed memory
PHYSFS_close(m, p, ub) ==
    IF p = "null" THEN m
    ELSE IF m.h.state = "open"
         THEN [m EXCEPT !.h.state = "closed", !.acct.handles = @ - 1]
         ELSE UB(m, "double_close", ub)

\* PHYSFS_eof: a handle opened for writing is never at end of file
PHYSFS_eof(m) == m.h.mode = "READ" /\ m.h.pos >= Len(m.fsData)

\* PHYSFS_tell
PHYSFS_tell(m) == m.h.pos

\* PHYSFS_fileLength
PHYSFS_fileLength(m) == Len(m.fsData)

\* PHYSFS_seek: a position before the start or past the end is refused and
\* the position stays (the code ignores the result)
PHYSFS_seek(m, pos) ==
    IF pos >= 0 /\ pos <= Len(m.fsData) THEN [m EXCEPT !.h.pos = pos] ELSE m

\* the counts PHYSFS_readBytes(file, buffer, bufferSize) may return: -1 on a
\* handle opened for writing, 0 at end of file, else any positive count up to
\* what was asked for and what is left (a short read)
ReadCounts(m) ==
    IF m.h.mode # "READ" THEN {-1}
    ELSE IF m.h.pos >= Len(m.fsData) THEN {0}
    ELSE 1..Min(bufferSize, Len(m.fsData) - m.h.pos)

\* PHYSFS_readBytes returning n > 0: the bytes land in buffer[0..n)
PHYSFS_readBytes(m, n) ==
    [m EXCEPT !.sb.buffer = [i \in 1..bufferSize |->
                                IF i <= n THEN m.fsData[m.h.pos + i] ELSE @[i]],
              !.h.pos = @ + n]

\* PHYSFS_writeBytes(file, pbase(), len) on a handle opened for writing:
\* all len bytes are stored at the handle's position
PHYSFS_writeBytes(m, len) ==
    [m EXCEPT !.fsData = Overwrite(@, m.h.pos,
                                   [i \in 1..len |-> m.sb.buffer[pbase + i]]),
              !.h.pos = @ + len]

\* a PHYSFS_* call of the fbuf finds its handle closed (freed by PHYSFS_close)
Dangling(m) == m.h.state # "open"

\* ------------------------------------------------------------------ class fbuf

\* fbuf::flush: write the pending bytes [pbase, pptr) to the handle
flush(m, ub) ==
    LET len == m.sb.pptr - pbase
    IN  IF m.dead THEN m
        ELSE IF len = 0 THEN [m EXCEPT !.ret = 0]
        ELSE IF Dangling(m) THEN [UB(m, "use_after_close", ub) EXCEPT !.ret = -1]
        ELSE IF m.h.mode = "READ" THEN [m EXCEPT !.ret = -1]
        ELSE [PHYSFS_writeBytes(m, len) EXCEPT !.ret = 0]

\* fbuf::underflow, PHYSFS_readBytes returning bytesRead
underflow(m, bytesRead) ==
    IF PHYSFS_eof(m) THEN [m EXCEPT !.ret = EOF]
    ELSE IF bytesRead < 1 THEN [m EXCEPT !.ret = EOF]
    ELSE LET r == PHYSFS_readBytes(m, bytesRead)
         IN  [r EXCEPT !.sb.gptr = 0, !.sb.egptr = bytesRead,
                       !.ret = r.sb.buffer[1]]

\* the handle position fbuf::seekoff asks PHYSFS_seek for
SeekTarget(m, pos, dir) ==
    CASE dir = "beg" -> pos
      [] dir = "cur" -> (PHYSFS_tell(m) + pos) - (m.sb.egptr - m.sb.gptr)
      [] dir = "end" -> PHYSFS_fileLength(m) + pos

\* the setg and setp both seeks end with; mode is a subset of {"in", "out"}
ResetRegions(m, mode) ==
    [m EXCEPT !.sb.gptr = IF "in" \in mode THEN m.sb.egptr ELSE @,
              !.sb.pptr = IF "out" \in mode THEN 0 ELSE @,
              !.sb.epptr = IF "out" \in mode THEN 0 ELSE @]

\* fbuf::seekoff
seekoff(m, pos, dir, mode) ==
    LET s == ResetRegions(PHYSFS_seek(m, SeekTarget(m, pos, dir)), mode)
    IN  [s EXCEPT !.ret = PHYSFS_tell(s)]

\* fbuf::seekpos
seekpos(m, pos, mode) ==
    LET s == ResetRegions(PHYSFS_seek(m, pos), mode)
    IN  [s EXCEPT !.ret = PHYSFS_tell(s)]

\* an overflow that flushes and resets the write region but does not store the
\* character it was called with
overflow_dropsChar(m, c, ub) ==
    LET f == flush(m, ub)
    IN  IF f.dead THEN f
        ELSE IF f.ret < 0 THEN [f EXCEPT !.ret = EOF]
        ELSE [f EXCEPT !.sb.pptr = 0, !.sb.epptr = bufferSize, !.ret = c]

\* fbuf::overflow
overflow(m, c, ub) ==
    LET f == flush(m, ub)
    IN  IF f.dead THEN f
        ELSE IF f.ret < 0 THEN [f EXCEPT !.ret = EOF]
        ELSE IF c # EOF
             THEN [f EXCEPT !.sb.buffer[1] = c, !.sb.pptr = 1,
                            !.sb.epptr = bufferSize, !.ret = c]
             ELSE [f EXCEPT !.sb.pptr = 0, !.sb.epptr = bufferSize, !.ret = c]

\* fbuf::sync
sync(m, ub) ==
    LET f == flush(m, ub)
    IN  IF f.dead THEN f
        ELSE [f EXCEPT !.sb.pptr = 0, !.sb.epptr = bufferSize]

\* new fbuf(file), handed to the std stream or to set_rdbuf
new_fbuf(m) ==
    [m EXCEPT !.sb = [buffer |-> [i \in 1..bufferSize |-> Uninit],
                      gptr |-> bufferSize, egptr |-> bufferSize,
                      pptr |-> 0, epptr |-> bufferSize],
              !.rdbuf = "fbuf",
              !.acct.fbufs = @ + 1]

\* delete rdbuf(): nothing for a null pointer, fbuf::~fbuf for a live object
\* (the pointer is left dangling: "freed"), undefined for a dangling pointer
delete_rdbuf(m, ub) ==
    IF m.dead \/ m.rdbuf = "null" THEN m
    ELSE IF m.rdbuf = "freed" THEN UB(m, "double_delete", ub)
    ELSE LET f == flush(m, ub)
         IN  IF f.dead THEN f
             ELSE [f EXCEPT !.sb = NoBuf, !.rdbuf = "freed", !.acct.fbufs = @ - 1]

\* streambuf::sbumpc: the next byte of the read region, else uflow, which
\* calls underflow and steps over the byte it returns
sbumpc(m, bytesRead) ==
    IF m.sb.gptr < m.sb.egptr
    THEN [m EXCEPT !.ret = m.sb.buffer[m.sb.gptr + 1], !.sb.gptr = @ + 1]
    ELSE LET u == underflow(m, bytesRead)
         IN  IF u.ret = EOF THEN u ELSE [u EXCEPT !.sb.gptr = @ + 1]

\* streambuf::sputc: store into the write region, else overflow
sputc(m, c, ub) ==
    IF m.sb.pptr < m.sb.epptr
    THEN [m EXCEPT !.sb.buffer[m.sb.pptr + 1] = c, !.sb.pptr = @ + 1, !.ret = c]
    ELSE overflow(m, c, ub)

\* --------------------------------------------------------- the stream facade

\* openWithMode: throws when the library returns NULL
openWithMode(m, filename, openMode) ==
    LET o == PHYSFS_open(m, filename, openMode)
    IN  IF m.dead THEN m
        ELSE IF o.file = "null"
             THEN [o EXCEPT !.thrown = TRUE, !.err = <<"file not found: ", filename>>]
             ELSE o

\* base_fstream::close
base_close(m, ub) ==
    IF m.dead \/ m.file = "null" THEN m
    ELSE [PHYSFS_close(m, m.file, ub) EXCEPT !.file = "null"]

\* ifstream::close, ofstream::close, fstream::close
close(m, ub) ==
    LET d == delete_rdbuf(base_close(m, ub), ub)
    IN  IF d.dead THEN d ELSE [d EXCEPT !.rdbuf = "null"]

\* the end of every open(): set_rdbuf(new fbuf(file)) unless openWithMode threw
open_tail(o) ==
    IF o.dead \/ o.thrown THEN o ELSE new_fbuf(o)

\* ofstream::open, fstream::open
ofstream_open(m, filename, openMode, ub) ==
    open_tail(openWithMode(close(m, ub), filename, openMode))

\* ifstream::open: the mode argument is ignored
ifstream_open(m, filename, ub) ==
    open_tail(openWithMode(close(delete_rdbuf(m, ub), ub), filename, "READ"))

\* the constructors: base_fstream(openWithMode(...)), then std::*stream(new fbuf(file))
construct(m, filename, openMode) ==
    open_tail(openWithMode(m, filename, openMode))

\* a destructor in the order of close(): PHYSFS_close, then delete rdbuf()
destruct_closeFirst(m, ub) ==
    LET d == delete_rdbuf(base_close(m, ub), ub)
    IN  IF d.dead THEN d ELSE [d EXCEPT !.rdbuf = "null"]

\* ~ifstream, ~ofstream, ~fstream (delete rdbuf()), then ~base_fstream
destruct(m, ub) ==
    LET d == delete_rdbuf(m, ub)
    IN  IF d.dead THEN d
        ELSE [PHYSFS_close(d, d.file, ub) EXCEPT !.file = "null", !.rdbuf = "null"]

\* base_fstream::length
length(m, ub) ==
    IF m.file = "null" THEN [UB(m, "null_handle", ub) EXCEPT !.ret = -1]
    ELSE [m EXCEPT !.ret = PHYSFS_fileLength(m)]

\* ----------------------------------------------------------------- the actions

\* no sequence: the value of lastS when no flushed WRITE-mode sequence is on file
NoSeq == <<EOF>>

\* the positions seekpos is called with
Positions == 0..MaxLen

\* the offsets and directions seekoff is called with
SeekArgs ==
    ({"beg"} \X (0..MaxLen)) \cup ({"cur"} \X {-1, 0, 1}) \cup ({"end"} \X {-1, 0})

\* the openmode arguments the facade passes to the seeks: seekg and tellg pass
\* in, seekp and tellp pass out, rdbuf()->pubseekoff(off, dir) passes in | out
SeekModes(k) ==
    CASE k = "ifstream" -> {{"in"}}
      [] k = "ofstream" -> {{"out"}}
      [] k = "fstream" -> {{"in"}, {"out"}, {"in", "out"}}

\* the modes the streams are opened with: ifstream passes READ whatever it
\* is given, ofstream is given a writeMode
OpenModes(k) ==
    CASE k = "ifstream" -> {"READ"}
      [] k = "ofstream" -> {"WRITE", "APPEND"}
      [] k = "fstream" -> Modes

\* the program state after a call
Commit(m) ==
    /\ fsExists' = m.fsExists
    /\ fsData' = m.fsData
    /\ h' = m.h
    /\ file' = m.file
    /\ rdbuf' = m.rdbuf
    /\ sb' = m.sb
    /\ ret' = m.ret
    /\ err' = m.err
    /\ fault' = m.fault
    /\ acct' = m.acct

\* the history kept about the handle, when m obtained a new handle
Opened(m) ==
    /\ wlog' = <<>>
    /\ wbase' = m.fsData
    /\ pend' = 0
    /\ closer' = ""
    /\ rstart' = m.h.pos
    /\ rlog' = <<>>
    /\ seeked' = "no"

\* lastS once the open handle, if any, is closed
ClosedS ==
    IF h.state = "open" /\ h.mode = "WRITE"
    THEN IF seeked = "no" /\ sb.pptr = pbase THEN wlog ELSE NoSeq
    ELSE lastS

\* the bytes pending once the open handle, if any, is closed
ClosedPend == IF h.state = "open" THEN sb.pptr - pbase ELSE pend

\* the call that closed the handle, once the call name has run
ClosedBy(name) == IF h.state = "open" THEN name ELSE closer

\* the process died in the call name: the file system is what remains of it
Died(m, name) ==
    /\ fsExists' = m.fsExists
    /\ fsData' = m.fsData
    /\ fault' = m.fault
    /\ op' = name
    /\ obj' = "crashed"
    /\ h' = NoHandle
    /\ file' = "null"
    /\ rdbuf' = "null"
    /\ sb' = NoBuf
    /\ ret' = 0
    /\ err' = <<>>
    /\ acct' = [handles |-> 0, fbufs |-> 0]
    /\ wlog' = <<>>
    /\ wbase' = <<>>
    /\ pend' = 0
    /\ closer' = ""
    /\ rstart' = 0
    /\ rlog' = <<>>
    /\ seeked' = "no"
    /\ lastS' = NoSeq
    /\ kind' = kind

\* the call name ran and left the program in m; hist says what becomes of
\* the history
Ran(m, name, hist) ==
    IF m.dead THEN Died(m, name)
    ELSE /\ Commit(m)
         /\ op' = name
         /\ hist

\* the outcomes of a call that, going on, leaves the program in m: one if the
\* call runs into no undefined behaviour, else one for each outcome of it
Outcomes(m) ==
    IF m.fault = "" THEN {"continue"} ELSE UBOutcomes

\* ifstream(filename), ofstream(filename, mode), fstream(filename, mode)
Construct(k, filename, openMode) ==
    /\ obj = "none"
    /\ openMode \in OpenModes(k)
    /\ kind' = k
    /\ LET m == construct(Cur, filename, openMode)
       IN  Ran(m, "construct",
               /\ obj' = IF m.thrown THEN "none" ELSE "alive"
               /\ IF m.thrown
                  THEN UNCHANGED <<wlog, wbase, pend, closer, rstart, rlog, seeked, lastS>>
                  ELSE /\ Opened(m)
                       /\ lastS' = IF openMode = "READ" THEN lastS ELSE NoSeq)

\* ifstream::open, ofstream::open, fstream::open
Open(filename, openMode) ==
    /\ obj = "alive"
    /\ openMode \in OpenModes(kind)
    /\ kind' = kind
    /\ LET run(ub) == IF kind = "ifstream"
                      THEN ifstream_open(Cur, filename, ub)
                      ELSE ofstream_open(Cur, filename, openMode, ub)
       IN  \E ub \in Outcomes(run("continue")) :
           LET m == run(ub)
           IN
           Ran(m, "open",
               /\ obj' = "alive"
               /\ IF m.thrown
                  THEN /\ pend' = ClosedPend
                       /\ closer' = ClosedBy("open")
                       /\ lastS' = ClosedS
                       /\ UNCHANGED <<wlog, wbase, rstart, rlog, seeked>>
                  ELSE /\ Opened(m)
                       /\ lastS' = IF m.h.mode = "READ" THEN ClosedS ELSE NoSeq)

\* ifstream::close, ofstream::close, fstream::close
Close ==
    /\ obj = "alive"
    /\ kind' = kind
    /\ LET run(ub) == close(Cur, ub)
       IN  \E ub \in Outcomes(run("continue")) :
           Ran(run(ub), "close",
               /\ obj' = "alive"
               /\ pend' = ClosedPend
               /\ closer' = ClosedBy("close")
               /\ lastS' = ClosedS
               /\ UNCHANGED <<wlog, wbase, rstart, rlog, seeked>>)

\* the stream object goes out of scope or is deleted
Destroy ==
    /\ obj = "alive"
    /\ kind' = kind
    /\ LET run(ub) == destruct(Cur, ub)
       IN  \E ub \in Outcomes(run("continue")) :
           Ran(run(ub), "destroy",
               /\ obj' = "none"
               /\ pend' = ClosedPend
               /\ closer' = ClosedBy("destroy")
               /\ lastS' = ClosedS
               /\ UNCHANGED <<wlog, wbase, rstart, rlog, seeked>>)

\* a call on a stream whose rdbuf() is null dereferences the null pointer
NoBufCall(name) ==
    \E ub \in UBOutcomes :
        Ran([UB(Cur, "null_rdbuf", ub) EXCEPT !.ret = EOF], name,
            UNCHANGED <<obj, wlog, wbase, pend, closer, rstart, rlog, seeked, lastS>>)

\* istream::get(): rdbuf()->sbumpc()
Get(bytesRead) ==
    /\ obj = "alive"
    /\ kind \in {"ifstream", "fstream"}
    /\ Len(rlog) <= MaxLen
    /\ kind' = kind
    /\ IF rdbuf # "fbuf" THEN NoBufCall("get")
       ELSE /\ bytesRead \in ReadCounts(Cur)
            /\ LET m == sbumpc(Cur, bytesRead)
               IN  Ran(m, "get",
                       /\ rlog' = IF m.ret # EOF /\ rstart >= 0
                                  THEN Append(rlog, m.ret) ELSE rlog
                       /\ UNCHANGED <<obj, wlog, wbase, pend, closer, rstart, seeked, lastS>>)

\* ostream::put(c): rdbuf()->sputc(c)
Put(c) ==
    /\ obj = "alive"
    /\ kind \in {"ofstream", "fstream"}
    /\ c = Len(wlog) + 1
    /\ h.mode # "READ" => h.pos + (sb.pptr - pbase) < MaxLen
    /\ kind' = kind
    /\ IF rdbuf # "fbuf" THEN NoBufCall("put")
       ELSE LET run(ub) == sputc(Cur, c, ub)
            IN  \E ub \in Outcomes(run("continue")) :
                LET m == run(ub)
                IN
                Ran(m, "put",
                    /\ wlog' = IF m.ret # EOF THEN Append(wlog, c) ELSE wlog
                    /\ seeked' = IF seeked = "no" THEN "no" ELSE "other"
                    /\ UNCHANGED <<obj, wbase, pend, closer, rstart, rlog, lastS>>)

\* ostream::flush(), istream::sync(): rdbuf()->pubsync()
Flush ==
    /\ obj = "alive"
    /\ kind' = kind
    /\ IF rdbuf # "fbuf" THEN NoBufCall("flush")
       ELSE LET run(ub) == sync(Cur, ub)
            IN  \E ub \in Outcomes(run("continue")) :
                Ran(run(ub), "flush",
                    UNCHANGED <<obj, wlog, wbase, pend, closer, rstart, rlog, seeked, lastS>>)

\* the read position the consumer is told by a seek: the returned position
\* when the seek is in the read direction, the position it had for a tellp,
\* not known after any other seek in the write direction alone
Told(m, off, dir, mode) ==
    IF "in" \in mode THEN m.ret
    ELSE IF dir = "cur" /\ off = 0 THEN rstart
    ELSE -1

\* seeked after a seek
Seeked(off, dir, mode) ==
    IF seeked = "no" /\ rlog = <<>> /\ dir = "beg" /\ off = 0 /\ "in" \in mode
    THEN "start"
    ELSE "other"

\* seekg(off, dir), seekp(off, dir), tellg(), tellp(): rdbuf()->pubseekoff(off, dir, mode)
SeekOff(off, dir, mode) ==
    /\ obj = "alive"
    /\ mode \in SeekModes(kind)
    /\ kind' = kind
    /\ IF rdbuf # "fbuf" THEN NoBufCall("seekoff")
       ELSE LET m == seekoff(Cur, off, dir, mode)
            IN  Ran(m, "seekoff",
                    /\ rstart' = Told(m, off, dir, mode)
                    /\ rlog' = IF "in" \in mode \/ rstart' = -1 THEN <<>> ELSE rlog
                    /\ seeked' = Seeked(off, dir, mode)
                    /\ UNCHANGED <<obj, wlog, wbase, pend, closer, lastS>>)

\* seekg(pos), seekp(pos): rdbuf()->pubseekpos(pos, mode)
SeekPos(pos, mode) ==
    /\ obj = "alive"
    /\ mode \in SeekModes(kind)
    /\ kind' = kind
    /\ IF rdbuf # "fbuf" THEN NoBufCall("seekpos")
       ELSE LET m == seekpos(Cur, pos, mode)
            IN  Ran(m, "seekpos",
                    /\ rstart' = Told(m, pos, "beg", mode)
                    /\ rlog' = <<>>
                    /\ seeked' = Seeked(pos, "beg", mode)
                    /\ UNCHANGED <<obj, wlog, wbase, pend, closer, lastS>>)

\* length()
Length ==
    /\ obj = "alive"
    /\ kind' = kind
    /\ LET run(ub) == length(Cur, ub)
       IN  \E ub \in Outcomes(run("continue")) :
           Ran(run(ub), "length",
               UNCHANGED <<obj, wlog, wbase, pend, closer, rstart, rlog, seeked, lastS>>)

\* the files "a" may start as: missing, empty, or MaxLen bytes that no put writes
Files == {[i \in 1..n |-> MaxLen + i] : n \in {0, MaxLen}}

Init ==
    /\ fsExists \in BOOLEAN
    /\ fsData \in IF fsExists THEN Files ELSE {<<>>}
    /\ h = NoHandle
    /\ obj = "none"
    /\ kind = "ifstream"
    /\ file = "null"
    /\ rdbuf = "null"
    /\ sb = NoBuf
    /\ op = "init"
    /\ ret = 0
    /\ err = <<>>
    /\ fault = ""
    /\ acct = [handles |-> 0, fbufs |-> 0]
    /\ wlog = <<>>
    /\ wbase = <<>>
    /\ pend = 0
    /\ closer = ""
    /\ rstart = 0
    /\ rlog = <<>>
    /\ seeked = "no"
    /\ lastS = NoSeq

\* every stream over its life, any number of streams one after the other:
\* the calls that do not seek
NextLife ==
    \/ \E k \in Kinds, f \in Names, md \in Modes : Construct(k, f, md)
    \/ \E f \in Names, md \in Modes : Open(f, md)
    \/ Close
    \/ Destroy
    \/ \E n \in -1..bufferSize : Get(n)
    \/ \E c \in Bytes : Put(c)
    \/ Flush
    \/ Length

SpecLife == Init /\ [][NextLife]_vars

\* the program constructs its one stream
ConstructOnce(k, filename, openMode) ==
    /\ op = "init"
    /\ Construct(k, filename, openMode)

\* one stream from its constructor to its destructor: every call but open()
\* and close()
NextSeek ==
    \/ \E k \in Kinds, f \in Names, md \in Modes : ConstructOnce(k, f, md)
    \/ Destroy
    \/ \E n \in -1..bufferSize : Get(n)
    \/ \E c \in Bytes : Put(c)
    \/ Flush
    \/ \E a \in SeekArgs, md \in SUBSET {"in", "out"} : SeekOff(a[2], a[1], md)
    \/ \E pos \in Positions, md \in SUBSET {"in", "out"} : SeekPos(pos, md)
    \/ Length

SpecSeek == Init /\ [][NextSeek]_vars

\* -------------------------------------------------------------- the properties

\* s is the start of t
IsPrefix(s, t) ==
    /\ Len(s) <= Len(t)
    /\ \A i \in 1..Len(s) : s[i] = t[i]

\* the bytes pending in the write region [pbase, pptr)
Pending == [i \in 1..(sb.pptr - pbase) |-> sb.buffer[pbase + i]]

\* the bytes the next reads return: the unconsumed bytes of the read region
\* [gptr, egptr), then what the handle delivers from its position on
ReadAhead ==
    [i \in 1..(sb.egptr - sb.gptr) |-> sb.buffer[sb.gptr + i]]
        \o (IF h.mode = "READ" THEN SubSeq(fsData, h.pos + 1, Len(fsData)) ELSE <<>>)

\* the handle was opened for writing
Writable == h.mode \in {"WRITE", "APPEND"}

\* the consumer's read position: where the last open or read seek put it,
\* plus the bytes get returned since
lpos == rstart + Len(rlog)

\* C1: on one adapter whose handle was opened for writing, after the bytes
\* S (wlog) were put, with or without a flush, and one seek to the start,
\* the reads return the bytes of S in order and none of the first |S| reads
\* is end-of-stream.
C1_RoundTrip ==
    (seeked = "start" /\ rdbuf = "fbuf" /\ Writable) =>
        /\ \A i \in 1..Min(Len(rlog), Len(wlog)) : rlog[i] = wlog[i]
        /\ (op = "get" /\ ret = EOF) => Len(rlog) >= Len(wlog)

\* C2: when a stream whose handle was opened for writing is destroyed, with
\* no seek and no close() before, the destructor has written every byte put
\* through it, in order, from where the writes started, to the handle while
\* it was open, and has closed the handle: the file is the bytes it had when
\* it was opened followed by the bytes put.
C2_DestructorFlush ==
    (closer = "destroy" /\ Writable /\ seeked = "no") =>
        /\ fsData = wbase \o wlog
        /\ h.state = "closed"
        /\ acct.handles = 0
        /\ op = "destroy" => fault = ""

\* C2 happens: 0 < n < bufferSize bytes were put on a handle opened for
\* APPEND on a file that had bytes, none was flushed before the destructor
\* ran, and the file ends with them.
C2_Witness ==
    /\ op = "destroy"
    /\ closer = "destroy"
    /\ h.mode = "APPEND"
    /\ seeked = "no"
    /\ wbase # <<>>
    /\ pend = Len(wlog)
    /\ pend > 0
    /\ pend < bufferSize
    /\ fsData = wbase \o wlog

\* C3: close() and open() write the pending bytes to the handle before they
\* close it: once the handle of a stream opened for writing was closed by
\* close() or open(), no call was made on the closed handle and, with no
\* seek before, the file holds every byte put.
C3_FlushBeforeClose ==
    (closer \in {"close", "open"} /\ Writable) =>
        /\ fault # "use_after_close"
        /\ seeked = "no" => fsData = wbase \o wlog

\* C4: after a stream opened for WRITE put the bytes S, flushed them and
\* had its handle closed (lastS = S), a stream opened for READ on the file,
\* with no put and no seek, reads the bytes of S in order, whatever short
\* reads refill its buffer, and reads end-of-stream only after all of S.
C4_WriteFlushReopenRead ==
    (lastS # NoSeq /\ rdbuf = "fbuf" /\ h.mode = "READ" /\ wlog = <<>> /\ seeked = "no") =>
        /\ IsPrefix(rlog, lastS)
        /\ (op = "get" /\ ret = EOF) => rlog = lastS

\* C4 happens: a reader has read a sequence longer than the buffer, which
\* the writer's overflow flushed in the middle, and then end-of-stream.
C4_Witness ==
    /\ lastS # NoSeq
    /\ Len(lastS) > bufferSize
    /\ rdbuf = "fbuf"
    /\ h.mode = "READ"
    /\ wlog = <<>>
    /\ seeked = "no"
    /\ op = "get"
    /\ ret = EOF
    /\ rlog = lastS

\* C5: a get at the consumer's read position equal to the file length
\* returns end-of-stream and leaves the handle and the regions as they were.
C5_EofIdempotent ==
    [][\A n \in -1..bufferSize :
          (Get(n) /\ rdbuf = "fbuf" /\ rstart >= 0 /\ lpos = Len(fsData)) =>
              (ret' = EOF /\ h' = h /\ sb' = sb)]_vars

\* C6: with k bytes read (lpos) and unconsumed bytes left in the read
\* region, a seek from-current by d returns k + d when that lies in the file.
C6_SeekCurLogical ==
    [][\A d \in {-1, 0, 1}, md \in SUBSET {"in", "out"} :
          (/\ SeekOff(d, "cur", md)
           /\ rdbuf = "fbuf"
           /\ rstart >= 0
           /\ sb.gptr > 0
           /\ sb.gptr < sb.egptr
           /\ lpos + d >= 0
           /\ lpos + d <= Len(fsData)) => ret' = lpos + d]_vars

\* C7: a constructor or open() that gets no handle throws the error that
\* names the file, and after an open() that got none no call runs on the
\* stream's null handle or null buffer.
C7_OpenFailure ==
    /\ (op \in {"construct", "open"} /\ file = "null" /\ obj # "crashed") =>
           (err # <<>> /\ err[1] = "file not found: " /\ err[2] \in Names)
    /\ closer = "open" => fault \notin {"null_handle", "null_rdbuf"}

\* C8: every handle obtained is closed once and every fbuf allocated is
\* deleted once: none is released twice or used after its release, the
\* stream holds what is live, and nothing is live once the stream is gone.
C8_ExactlyOnce ==
    /\ fault \notin {"double_delete", "double_close", "use_after_close"}
    /\ acct.handles = (IF file = "h" THEN 1 ELSE 0)
    /\ acct.fbufs = (IF rdbuf = "fbuf" THEN 1 ELSE 0)
    /\ obj = "none" => (file = "null" /\ rdbuf = "null")

\* C9: the read region [gptr, egptr) and the write region [pbase, pptr) are
\* never both non-empty.
C9_RegionExclusive ==
    rdbuf = "fbuf" => ~(sb.gptr < sb.egptr /\ pbase < sb.pptr)

\* C10: tellg and tellp (a seek from-current by 0 in one direction), on a
\* stream that put bytes only on a handle opened for writing, change neither
\* the file, nor the bytes pending and where a flush stores them, nor the
\* bytes the next reads return.
C10_TellNoEffect ==
    [][\A md \in {{"in"}, {"out"}} :
          (SeekOff(0, "cur", md) /\ rdbuf = "fbuf" /\ (wlog = <<>> \/ Writable)) =>
              /\ fsData' = fsData
              /\ Pending' = Pending
              /\ Writable => h'.pos = h.pos
              /\ ReadAhead' = ReadAhead]_vars

====
